---- MODULE Spec2Model ----
(***************************************************************************)
(* State-machine model of the pool water measurement application           *)
(* (src/app.py): a Streamlit script whose main() runs once per user        *)
(* interaction of a browser session, against one PostgreSQL database with  *)
(* the tables users and measurements.                                      *)
(*                                                                         *)
(* Units.  Numbers typed into the forms are modelled in thousandths        *)
(* (0.5 mg/L = 500), so that the rounding the NUMERIC(4,2) and            *)
(* NUMERIC(3,1) columns apply on INSERT is a real conversion.  Stored      *)
(* chlorine values are in hundredths (0.40 = 40), stored pH and            *)
(* temperature in tenths.  The subtraction of line 180 is done exactly;    *)
(* the input sets avoid differences that end on a half cent, where binary  *)
(* floating point would decide the direction of the rounding.              *)
(*                                                                         *)
(* Messages are the source's texts without diacritics.                     *)
(***************************************************************************)
EXTENDS Integers, Sequences, FiniteSets, TLC

\* ------------------------------------------------------------ bounds

\* Largest value the users.id sequence hands out in a run of the checker.
MaxUserSeq == 3
\* Largest number of rows in measurements (Spec, SpecGate).
MaxMeasurements == 2
\* Largest number of rows in measurements under SpecChlor.
MaxMeasChlor == 2
\* Largest number of rows in measurements under SpecPeriod.
MaxMeasPeriod == 3

\* ------------------------------------------------------------ sessions

Sessions == {"s1", "s2"}

\* st.session_state after logout_button (or before any login): the four
\* keys are absent.  An absent key is modelled by the values below.
NoSession == [logged_in |-> FALSE, user_id |-> 0, username |-> "", role |-> ""]

\* ------------------------------------------------------------ passwords

\* bcrypt.hashpw(password, gensalt()): an opaque value that checkpw accepts
\* for that password only.  The salt is not modelled.
hashpw(password) == [alg |-> "bcrypt", pw |-> password]

\* A password_hash that is no bcrypt hash (a row written by other means
\* than this program): bcrypt.checkpw raises ValueError on it.
MalformedHash == [alg |-> "plain", pw |-> "legacy"]

checkpw_raises(password_hash) == password_hash.alg # "bcrypt"

\* Mutant of checkpw: every password is accepted.
checkpw_any(password, password_hash) == password_hash.pw = password_hash.pw

checkpw(password, password_hash) == password_hash.pw = password

\* ------------------------------------------------------------ texts

MsgBadLogin == "Nespravne meno alebo heslo."
MsgVerifyError == "Chyba pri overovani hesla."
MsgNoPermission == "Nemate opravnenie na pristup."
MsgEmptyFields == "Meno aj heslo musia byt vyplnene."
MsgUserAdded == "Pouzivatel bol pridany."
MsgAddUserError == "Chyba pri pridavani pouzivatela: UniqueViolation"
MsgSaved == "Hodnoty boli uspesne ulozene."
MsgSaveError == "Chyba pri ukladani: NumericValueOutOfRange"
MsgNoHistory == "Zatial nie su ziadne merania."
MsgNoMonthRows == "Pre tento mesiac nie su ziadne zaznamy."
MsgNoCharts == "Zatial nie su ziadne merania na zobrazenie grafov."
MsgNoExportData == "V tomto mesiaci nie su ziadne data."
MsgDefaultAdmin == "Vytvoreny default admin ucet."
\* An exception that leaves main(): Streamlit ends the run with a traceback.
MsgUnhandled == "Traceback: psycopg2.errors.UniqueViolation"

\* ------------------------------------------------------------ state

VARIABLES
    users,          \* committed rows of table users, in insertion order
    users_id_seq,   \* next value of the SERIAL sequence of users.id
    measurements,   \* committed rows of table measurements
    session_state,  \* st.session_state of each browser session
    pc,             \* where the current run of main() of each session is
    pending,        \* the uncommitted users row of each session's connection
    last            \* what the most recent step showed to its session

vars == <<users, users_id_seq, measurements, session_state, pc, pending, last>>

Outcome(s, op, msg, args, data) ==
    [sess |-> s, op |-> op, msg |-> msg, args |-> args, data |-> data]

NoData == [none |-> TRUE]

\* CREATE TABLE IF NOT EXISTS keeps an existing table: the program may start
\* on an empty users table or on one that already holds rows.
InitialUsers ==
    { <<>>,
      << [id |-> 1, username |-> "legacy", password_hash |-> MalformedHash,
          role |-> "user"] >> }

Init ==
    /\ users \in InitialUsers
    /\ users_id_seq = Len(users) + 1
    /\ measurements = <<>>
    /\ session_state = [s \in Sessions |-> NoSession]
    /\ pc = [s \in Sessions |-> "idle"]
    /\ pending = [s \in Sessions |-> <<>>]
    /\ last = Outcome("", "none", "", NoData, NoData)

\* ------------------------------------------------------------ users table

\* The rows of users with this username (UNIQUE: at most one).
UserRows(username) == {i \in 1..Len(users) : users[i].username = username}

\* Another connection holds an uncommitted row with this username: an
\* INSERT of the same username waits for that transaction to end.
BlockedBy(s, username) ==
    \E t \in Sessions \ {s} :
        pending[t] # <<>> /\ pending[t][1].username = username

UserRow(id, username, password, role) ==
    [id |-> id, username |-> username, password_hash |-> hashpw(password),
     role |-> role]

\* ------------------------------------------------------------ bootstrap

\* Mutant of ensure_default_admin_count: the count is not looked at.
ensure_default_admin_count_always(s) ==
    /\ pc[s] = "idle"
    /\ pc' = [pc EXCEPT ![s] = "insert"]
    /\ UNCHANGED <<users, users_id_seq, measurements, session_state, pending, last>>

\* main() up to the SELECT COUNT(*) of ensure_default_admin.
ensure_default_admin_count(s) ==
    /\ pc[s] = "idle"
    /\ pc' = [pc EXCEPT ![s] = IF Len(users) = 0 THEN "insert" ELSE "dispatch"]
    /\ UNCHANGED <<users, users_id_seq, measurements, session_state, pending, last>>

\* The INSERT of the default admin.  The id is drawn from the sequence
\* before the unique index is checked; a duplicate raises UniqueViolation,
\* which nothing catches.
ensure_default_admin_insert(s) ==
    /\ pc[s] = "insert"
    /\ ~BlockedBy(s, "admin")
    /\ users_id_seq' = users_id_seq + 1
    /\ IF UserRows("admin") # {}
       THEN /\ pc' = [pc EXCEPT ![s] = "idle"]
            /\ last' = Outcome(s, "ensure_default_admin", MsgUnhandled, NoData, NoData)
            /\ UNCHANGED pending
       ELSE /\ pc' = [pc EXCEPT ![s] = "commit"]
            /\ pending' = [pending EXCEPT
                  ![s] = <<UserRow(users_id_seq, "admin", "admin123", "admin")>>]
            /\ UNCHANGED last
    /\ UNCHANGED <<users, measurements, session_state>>

\* conn.commit() and the st.info of ensure_default_admin.
ensure_default_admin_commit(s) ==
    /\ pc[s] = "commit"
    /\ users' = Append(users, pending[s][1])
    /\ pending' = [pending EXCEPT ![s] = <<>>]
    /\ pc' = [pc EXCEPT ![s] = "dispatch"]
    /\ last' = Outcome(s, "ensure_default_admin", MsgDefaultAdmin, NoData, NoData)
    /\ UNCHANGED <<users_id_seq, measurements, session_state>>

\* ------------------------------------------------------------ login

\* login_screen: reached when the session is not logged in.
login_screen(s, login_btn, username, password) ==
    /\ pc[s] = "dispatch"
    /\ ~session_state[s].logged_in
    /\ pc' = [pc EXCEPT ![s] = "idle"]
    /\ LET args == [btn |-> login_btn, username |-> username, password |-> password]
           row == users[CHOOSE i \in UserRows(username) : TRUE]
       IN  IF ~login_btn
           THEN /\ last' = Outcome(s, "login_screen", "", args, NoData)
                /\ UNCHANGED session_state
           ELSE IF UserRows(username) = {}
           THEN /\ last' = Outcome(s, "login_screen", MsgBadLogin, args, NoData)
                /\ UNCHANGED session_state
           ELSE IF checkpw_raises(row.password_hash)
           THEN /\ last' = Outcome(s, "login_screen", MsgVerifyError, args, NoData)
                /\ UNCHANGED session_state
           ELSE IF checkpw(password, row.password_hash)
           THEN /\ session_state' = [session_state EXCEPT ![s] =
                      [logged_in |-> TRUE, user_id |-> row.id,
                       username |-> username, role |-> row.role]]
                /\ last' = Outcome(s, "login_screen", "rerun", args, NoData)
           ELSE /\ last' = Outcome(s, "login_screen", MsgBadLogin, args, NoData)
                /\ UNCHANGED session_state
    /\ UNCHANGED <<users, users_id_seq, measurements, pending>>

\* logout_button: the four keys are deleted and the script is run again.
logout_button(s) ==
    /\ pc[s] = "dispatch"
    /\ session_state[s].logged_in
    /\ session_state' = [session_state EXCEPT ![s] = NoSession]
    /\ pc' = [pc EXCEPT ![s] = "idle"]
    /\ last' = Outcome(s, "logout_button", "rerun", NoData, NoData)
    /\ UNCHANGED <<users, users_id_seq, measurements, pending>>

\* ------------------------------------------------------------ dates

Date(y, m, d) == [year |-> y, month |-> m, day |-> d]

\* Days from 1970-01-01 to the date (proleptic Gregorian calendar).
DaysFromCivil(dt) ==
    LET y   == IF dt.month <= 2 THEN dt.year - 1 ELSE dt.year
        era == y \div 400
        yoe == y - era * 400
        mp  == (dt.month + 9) % 12
        doy == (153 * mp + 2) \div 5 + dt.day - 1
        doe == yoe * 365 + yoe \div 4 - yoe \div 100 + doy
    IN  era * 146097 + doe - 719468

\* date.weekday(): Monday is 0.  1970-01-01 was a Thursday.
weekday(dt) == (DaysFromCivil(dt) + 3) % 7

dni == <<"Pondelok", "Utorok", "Streda", "Stvrtok", "Piatok", "Sobota", "Nedela">>

day_of_week_sk(date_obj) == dni[weekday(date_obj) + 1]

\* ------------------------------------------------------------ numbers

\* What a NUMERIC(p,s) column does to a value given in thousandths: it
\* rounds half away from zero to the column's scale; unit is 10 for two
\* decimals, 100 for one.
RoundNumeric(x, unit) ==
    IF x >= 0 THEN (x + unit \div 2) \div unit
              ELSE 0 - ((0 - x + unit \div 2) \div unit)

\* A value whose rounded form needs more than p - s integer digits is
\* refused by the column (numeric field overflow).
NumericOverflow(x, unit, limit) ==
    LET r == RoundNumeric(x, unit) IN r >= limit \/ r <= 0 - limit

Max(a, b) == IF a >= b THEN a ELSE b

\* Line 180: viazany = max(celkovy - volny, 0.0), in thousandths.
viazany(volny, celkovy) == Max(celkovy - volny, 0)

\* The ranges the number_input widgets of zapis_merania enforce.
ValidInput(in) ==
    /\ in.volny >= 0
    /\ in.celkovy >= 0
    /\ in.ph >= 0 /\ in.ph <= 14000
    /\ in.teplota >= -10000 /\ in.teplota <= 60000

\* ------------------------------------------------------------ zapis_merania

\* The INSERT of zapis_merania is refused when a value does not fit its
\* column: free, total, bound NUMERIC(4,2), ph NUMERIC(3,1),
\* temperature NUMERIC(4,1).
InsertRefused(in) ==
    \/ NumericOverflow(in.volny, 10, 10000)
    \/ NumericOverflow(in.celkovy, 10, 10000)
    \/ NumericOverflow(viazany(in.volny, in.celkovy), 10, 10000)
    \/ NumericOverflow(in.ph, 100, 1000)
    \/ NumericOverflow(in.teplota, 100, 10000)

\* Mutant of MeasurementRow: the owner is not the acting session's user.
MeasurementRow_swapped(id, in, user_id) ==
    [id |-> id,
     date |-> in.datum,
     day |-> day_of_week_sk(in.datum),
     time |-> in.cas,
     free_chlorine |-> RoundNumeric(in.volny, 10),
     total_chlorine |-> RoundNumeric(in.celkovy, 10),
     bound_chlorine |-> RoundNumeric(viazany(in.volny, in.celkovy), 10),
     ph |-> RoundNumeric(in.ph, 100),
     temperature |-> RoundNumeric(in.teplota, 100),
     note |-> in.poznamka,
     user_id |-> id]

\* The row the INSERT of zapis_merania stores.
MeasurementRow(id, in, user_id) ==
    [id |-> id,
     date |-> in.datum,
     day |-> day_of_week_sk(in.datum),
     time |-> in.cas,
     free_chlorine |-> RoundNumeric(in.volny, 10),
     total_chlorine |-> RoundNumeric(in.celkovy, 10),
     bound_chlorine |-> RoundNumeric(viazany(in.volny, in.celkovy), 10),
     ph |-> RoundNumeric(in.ph, 100),
     temperature |-> RoundNumeric(in.teplota, 100),
     note |-> in.poznamka,
     user_id |-> user_id]

\* zapis_merania: the form, and with the button the INSERT and commit.
\* measurements.id is SERIAL; no INSERT of this table fails after its id
\* was drawn, so the next id is the number of rows plus one.
zapis_merania(s, btn, in, maxRows) ==
    /\ pc[s] = "dispatch"
    /\ session_state[s].logged_in
    /\ ValidInput(in)
    /\ btn => Len(measurements) < maxRows
    /\ pc' = [pc EXCEPT ![s] = "idle"]
    /\ LET args == [btn |-> btn, in |-> in] IN
       IF ~btn
       THEN /\ last' = Outcome(s, "zapis_merania", "", args, NoData)
            /\ UNCHANGED measurements
       ELSE IF InsertRefused(in)
       THEN /\ last' = Outcome(s, "zapis_merania", MsgSaveError, args, NoData)
            /\ UNCHANGED measurements
       ELSE /\ measurements' = Append(measurements,
                 MeasurementRow(Len(measurements) + 1, in, session_state[s].user_id))
            /\ last' = Outcome(s, "zapis_merania", MsgSaved, args, NoData)
    /\ UNCHANGED <<users, users_id_seq, session_state, pending>>

\* ------------------------------------------------------------ queries

\* u.username of LEFT JOIN users u ON m.user_id = u.id (NULL without a match).
JoinedUsername(m) ==
    LET hit == {i \in 1..Len(users) : users[i].id = m.user_id}
    IN  IF hit = {} THEN "NULL" ELSE users[CHOOSE i \in hit : TRUE].username

\* The ORDER BY key (m.date, m.time).  time holds strftime("%H:%M"), zero
\* padded, whose order as text is the order of (hour, minute).
OrderKey(m) == <<m.date.year, m.date.month, m.date.day, m.time[1], m.time[2]>>

RECURSIVE LexLess(_, _, _)
LexLess(a, b, i) ==
    IF i > Len(a) THEN FALSE
    ELSE IF a[i] # b[i] THEN a[i] < b[i]
    ELSE LexLess(a, b, i + 1)

\* a may stand before b under ORDER BY date, time (ASC, or DESC DESC).
MayPrecede(a, b, descending) ==
    IF descending THEN ~LexLess(OrderKey(a), OrderKey(b), 1)
                  ELSE ~LexLess(OrderKey(b), OrderKey(a), 1)

\* The results a SELECT ... ORDER BY date, time may return for the rows
\* with the indexes idx: every arrangement of them that respects the
\* order.  Rows with equal date and time come in an order SQL leaves open.
RECURSIVE OrderedSelect(_, _)
OrderedSelect(idx, descending) ==
    IF idx = {} THEN {<<>>}
    ELSE LET first == {i \in idx : \A j \in idx :
                          MayPrecede(measurements[i], measurements[j], descending)}
         IN  UNION { { <<i>> \o rest : rest \in OrderedSelect(idx \ {i}, descending) } :
                     i \in first }

\* One of the results OrderedSelect allows: the pages use it where what
\* they do depends on the number of rows only.
RECURSIVE OneSelect(_, _)
OneSelect(idx, descending) ==
    IF idx = {} THEN <<>>
    ELSE LET i == CHOOSE i \in idx : \A j \in idx :
                      MayPrecede(measurements[i], measurements[j], descending)
         IN  <<i>> \o OneSelect(idx \ {i}, descending)

\* EXTRACT(YEAR FROM m.date) = rok AND EXTRACT(MONTH FROM m.date) = mesiac,
\* and the same test on the data frame's column.
\* Mutant of InPeriod: the year is not compared.
InPeriod_month_only(m, rok, mesiac) == m.date.month = mesiac

InPeriod(m, rok, mesiac) == m.date.year = rok /\ m.date.month = mesiac

AllRows == 1..Len(measurements)

PeriodRows(rok, mesiac) == {i \in AllRows : InPeriod(measurements[i], rok, mesiac)}

\* ------------------------------------------------------------ classifier

CssBlue == "background-color: #cce6ff"
CssYellow == "background-color: #fff3b0"

\* Mutant of farba_branch: the first comparison is strict.
farba_branch_strict(val) ==
    IF val < 30 THEN "Low"
    ELSE IF 40 <= val /\ val <= 70 THEN "Normal"
    ELSE IF val >= 80 THEN "High"
    ELSE "Unclassified"

\* The branch of farba_volny_chlor a value takes; val is in hundredths, as
\* the column hands it out.
farba_branch(val) ==
    IF val <= 30 THEN "Low"
    ELSE IF 40 <= val /\ val <= 70 THEN "Normal"
    ELSE IF val >= 80 THEN "High"
    ELSE "Unclassified"

\* The CSS farba_volny_chlor returns.
farba_volny_chlor(val) ==
    LET b == farba_branch(val)
    IN  IF b = "Low" THEN CssBlue
        ELSE IF b = "Normal" THEN ""
        ELSE IF b = "High" THEN CssYellow
        ELSE ""

\* ------------------------------------------------------------ historia_merani

HistoryRow(m) ==
    [id |-> m.id, date |-> m.date, day |-> m.day, time |-> m.time,
     free_chlorine |-> m.free_chlorine, total_chlorine |-> m.total_chlorine,
     bound_chlorine |-> m.bound_chlorine, ph |-> m.ph,
     temperature |-> m.temperature, note |-> m.note, username |-> JoinedUsername(m)]

\* Mutant of FilterFrame: the month is not compared.
FilterFrame_year_only(df, rok, mesiac) ==
    LET keep(r) == r.date.year = rok IN SelectSeq(df, keep)

\* df[(df.date.year == rok) & (df.date.month == mesiac)]
FilterFrame(df, rok, mesiac) ==
    LET keep(r) == InPeriod(r, rok, mesiac) IN SelectSeq(df, keep)

\* df.style.applymap(farba_volny_chlor, subset = free chlorine)
StyleFrame(df) == [i \in 1..Len(df) |-> farba_volny_chlor(df[i].free_chlorine)]

\* What the history page shows when the SELECT returned the rows in the
\* order p: the full frame, the frame after the filter (btn) and its styles.
HistoryView(p, btn, rok, mesiac) ==
    LET rows == [i \in 1..Len(p) |-> HistoryRow(measurements[p[i]])]
        df   == IF btn THEN FilterFrame(rows, rok, mesiac) ELSE rows
    IN  [full |-> rows, df |-> df, styled |-> StyleFrame(df)]

\* The views the history page may show in the current state, one for each
\* order the SELECT may return.
HistoryViews(btn, rok, mesiac) ==
    { HistoryView(p, btn, rok, mesiac) : p \in OrderedSelect(AllRows, TRUE) }

\* historia_merani.  The page reads only; the message it shows depends on
\* the numbers of rows, which every order of the result shares, and is kept
\* in last; the frames shown are HistoryViews of the state.
historia_merani(s, btn, rok, mesiac) ==
    /\ pc[s] = "dispatch"
    /\ session_state[s].logged_in
    /\ pc' = [pc EXCEPT ![s] = "idle"]
    /\ LET args == [btn |-> btn, rok |-> rok, mesiac |-> mesiac]
           v    == HistoryView(OneSelect(AllRows, TRUE), btn, rok, mesiac)
       IN  IF v.full = <<>>
           THEN last' = Outcome(s, "historia_merani", MsgNoHistory, args,
                                [table |-> FALSE])
           ELSE last' = Outcome(s, "historia_merani",
                                IF btn /\ v.df = <<>> THEN MsgNoMonthRows ELSE "",
                                args, [table |-> TRUE])
    /\ UNCHANGED <<users, users_id_seq, measurements, session_state, pending>>

\* ------------------------------------------------------------ grafy_merani

\* One point per row: the combined timestamp and the three groups of values.
ChartPoint(m) ==
    [Datetime |-> <<m.date, m.time>>,
     chlor |-> <<m.free_chlorine, m.total_chlorine, m.bound_chlorine>>,
     ph |-> m.ph, teplota |-> m.temperature]

\* The series the chart page may draw, one for each order of the SELECT.
ChartViews ==
    { [i \in 1..Len(p) |-> ChartPoint(measurements[p[i]])] :
        p \in OrderedSelect(AllRows, FALSE) }

grafy_merani(s) ==
    /\ pc[s] = "dispatch"
    /\ session_state[s].logged_in
    /\ pc' = [pc EXCEPT ![s] = "idle"]
    /\ LET v == OneSelect(AllRows, FALSE)
       IN  IF v = <<>>
           THEN last' = Outcome(s, "grafy_merani", MsgNoCharts, NoData, [charts |-> FALSE])
           ELSE last' = Outcome(s, "grafy_merani", "", NoData, [charts |-> TRUE])
    /\ UNCHANGED <<users, users_id_seq, measurements, session_state, pending>>

\* ------------------------------------------------------------ export_merani

ExportColumns ==
    <<"Datum", "Den", "Cas", "Volny Cl", "Celkovy Cl", "Viazany Cl", "pH",
      "Teplota vody", "Poznamka", "Zadal">>

\* The ten columns the export's SELECT returns for a row.
ExportRow(m) ==
    <<m.date, m.day, m.time, m.free_chlorine, m.total_chlorine,
      m.bound_chlorine, m.ph, m.temperature, m.note, JoinedUsername(m)>>

\* df.to_csv(index=False): the header line, then one line per row.
to_csv(df, rok, mesiac) ==
    [file_name |-> <<"bazen_merania", rok, mesiac, "csv">>,
     mime |-> "text/csv",
     lines |-> <<ExportColumns>> \o df]

\* df.to_excel(writer, index=False, sheet_name="Merania")
to_excel(df, rok, mesiac) ==
    [file_name |-> <<"bazen_merania", rok, mesiac, "xlsx">>,
     mime |-> "application/vnd.openxmlformats-officedocument.spreadsheetml.sheet",
     sheet |-> "Merania",
     header |-> ExportColumns,
     cells |-> df]

\* What the export builds when the SELECT returned the rows in the order p.
ExportView(p, rok, mesiac) ==
    LET rows == [i \in 1..Len(p) |-> ExportRow(measurements[p[i]])]
    IN  [rows |-> rows,
         csv  |-> to_csv(rows, rok, mesiac),
         xlsx |-> to_excel(rows, rok, mesiac)]

\* The exports the page may build in the current state, one for each order
\* the SELECT may return.
ExportViews(rok, mesiac) ==
    { ExportView(p, rok, mesiac) : p \in OrderedSelect(PeriodRows(rok, mesiac), FALSE) }

\* export_merani.  The page reads only; whether it warns or offers the files
\* depends on the number of rows and is kept in last; the files are
\* ExportViews of the state.
export_merani(s, btn, rok, mesiac) ==
    /\ pc[s] = "dispatch"
    /\ session_state[s].logged_in
    /\ pc' = [pc EXCEPT ![s] = "idle"]
    /\ LET args == [btn |-> btn, rok |-> rok, mesiac |-> mesiac]
           v    == ExportView(OneSelect(PeriodRows(rok, mesiac), FALSE), rok, mesiac)
       IN  IF ~btn
           THEN last' = Outcome(s, "export_merani", "", args, [files |-> FALSE])
           ELSE IF v.rows = <<>>
           THEN last' = Outcome(s, "export_merani", MsgNoExportData, args,
                                [files |-> FALSE])
           ELSE last' = Outcome(s, "export_merani", "", args, [files |-> TRUE])
    /\ UNCHANGED <<users, users_id_seq, measurements, session_state, pending>>

\* ------------------------------------------------------------ sprava_pouzivatelov

\* SELECT id, username, role, created_at FROM users ORDER BY id
UserList == [i \in 1..Len(users) |->
                [id |-> users[i].id, username |-> users[i].username,
                 role |-> users[i].role]]

\* Mutant of EmptyField: the password is not looked at.
EmptyField_name_only(new_username, new_password) == new_username = ""

\* not new_username or not new_password
EmptyField(new_username, new_password) == new_username = "" \/ new_password = ""

\* Mutant of role_denied: nobody is turned away.
role_denied_never(s) == session_state[s].role # session_state[s].role

\* st.session_state.get("role") != "admin"
role_denied(s) == session_state[s].role # "admin"

\* sprava_pouzivatelov: the role check, the list, and with the button the
\* INSERT of the new user.  An INSERT that meets an uncommitted row of the
\* same username waits; one that meets a committed row raises
\* UniqueViolation after its id was drawn, and the except branch reports it.
sprava_pouzivatelov(s, btn, new_username, new_password, new_role) ==
    /\ pc[s] = "dispatch"
    /\ pc' = [pc EXCEPT ![s] = "idle"]
    /\ LET args == [btn |-> btn, new_username |-> new_username,
                    new_password |-> new_password, new_role |-> new_role]
           insert == btn /\ ~EmptyField(new_username, new_password)
       IN  IF role_denied(s)
           THEN /\ last' = Outcome(s, "sprava_pouzivatelov", MsgNoPermission, args,
                                   [listed |-> FALSE])
                /\ UNCHANGED <<users, users_id_seq>>
           ELSE /\ insert => users_id_seq <= MaxUserSeq /\ ~BlockedBy(s, new_username)
                /\ IF ~btn
                   THEN /\ last' = Outcome(s, "sprava_pouzivatelov", "", args,
                                     [listed |-> TRUE, list |-> UserList])
                        /\ UNCHANGED <<users, users_id_seq>>
                   ELSE IF ~insert
                   THEN /\ last' = Outcome(s, "sprava_pouzivatelov", MsgEmptyFields, args,
                                     [listed |-> TRUE, list |-> UserList])
                        /\ UNCHANGED <<users, users_id_seq>>
                   ELSE IF UserRows(new_username) # {}
                   THEN /\ last' = Outcome(s, "sprava_pouzivatelov", MsgAddUserError, args,
                                     [listed |-> TRUE, list |-> UserList])
                        /\ users_id_seq' = users_id_seq + 1
                        /\ UNCHANGED users
                   ELSE /\ last' = Outcome(s, "sprava_pouzivatelov", MsgUserAdded, args,
                                     [listed |-> TRUE, list |-> UserList])
                        /\ users_id_seq' = users_id_seq + 1
                        /\ users' = Append(users,
                              UserRow(users_id_seq, new_username, new_password, new_role))
    /\ UNCHANGED <<measurements, session_state, pending>>

\* ------------------------------------------------------------ main

\* The sidebar menu of main().
menu(s) ==
    {"Zapis merani", "Historia", "Grafy", "Export"}
        \cup (IF session_state[s].role = "admin" THEN {"Sprava pouzivatelov"} ELSE {})

\* What the user of a session may type and press in one run: in.readings the
\* readings of the form of zapis_merania, in.periods the (rok, mesiac) of
\* the two period forms, in.logins the (username, password) of the login
\* form, in.newusers the (username, password, role) of the form of
\* sprava_pouzivatelov, in.maxRows the bound on measurements.  A run without
\* a button pressed is taken with the first values of each form.
Pressed(btn, values) == IF btn THEN values ELSE {CHOOSE v \in values : TRUE}

\* main() runs the page of the menu entry vyber: the session is logged in
\* and the entry is one its menu offers.
Selected(s, vyber) == session_state[s].logged_in /\ vyber \in menu(s)

\* One step of a run of main() in session s.
main(s, in) ==
    \/ ensure_default_admin_count(s)
    \/ ensure_default_admin_insert(s)
    \/ ensure_default_admin_commit(s)
    \/ \E btn \in BOOLEAN : \E l \in Pressed(btn, in.logins) :
          login_screen(s, btn, l[1], l[2])
    \/ logout_button(s)
    \/ /\ Selected(s, "Zapis merani")
       /\ \E btn \in BOOLEAN : \E r \in Pressed(btn, in.readings) :
             zapis_merania(s, btn, r, in.maxRows)
    \/ /\ Selected(s, "Historia")
       /\ \E btn \in BOOLEAN : \E q \in Pressed(btn, in.periods) :
             historia_merani(s, btn, q[1], q[2])
    \/ /\ Selected(s, "Grafy")
       /\ grafy_merani(s)
    \/ /\ Selected(s, "Export")
       /\ \E btn \in BOOLEAN : \E q \in Pressed(btn, in.periods) :
             export_merani(s, btn, q[1], q[2])
    \/ /\ Selected(s, "Sprava pouzivatelov")
       /\ \E btn \in BOOLEAN : \E n \in Pressed(btn, in.newusers) :
             sprava_pouzivatelov(s, btn, n[1], n[2], n[3])

\* ------------------------------------------------------------ inputs

Time(h, m) == <<h, m>>

Reading(datum, cas, volny, celkovy) ==
    [datum |-> datum, cas |-> cas, volny |-> volny, celkovy |-> celkovy,
     ph |-> 7200, teplota |-> 26500, poznamka |-> ""]

\* Inputs of Spec and SpecGate: every outcome of the login form and of the
\* user form, one reading that is stored and one the column refuses (100.0).
InputsMain ==
    [readings |-> { Reading(Date(2024, 5, 10), Time(8, 0), 500, 900),
                    Reading(Date(2024, 5, 10), Time(8, 0), 100000, 100000) },
     periods  |-> { <<2024, 5>> },
     logins   |-> { <<"admin", "admin123">>, <<"admin", "pw">>, <<"eva", "pw">>,
                    <<"nobody", "pw">>, <<"legacy", "pw">> },
     newusers |-> { <<"eva", "pw", "user">>, <<"eva", "pw", "admin">>,
                    <<"admin", "pw", "user">>, <<"", "pw", "user">>,
                    <<"eva", "", "user">> },
     maxRows  |-> MaxMeasurements]

\* Inputs of SpecChlor: (free, total) pairs around the thresholds of the
\* classifier and on both sides of total = free, some with a third decimal.
ChlorPairs ==
    { <<500, 900>>, <<1000, 800>>, <<4, 8>>, <<300, 300>>, <<350, 900>>,
      <<400, 404>>, <<700, 900>>, <<750, 900>>, <<800, 900>> }

InputsChlor ==
    [readings |-> { Reading(Date(2024, 5, 10), Time(8, 0), c[1], c[2]) : c \in ChlorPairs },
     periods  |-> { <<2024, 5>> },
     logins   |-> { <<"admin", "admin123">> },
     newusers |-> { <<"eva", "pw", "user">> },
     maxRows  |-> MaxMeasChlor]

\* Inputs of SpecPeriod: dates in and out of the queried months, with equal
\* and different times of day.
InputsPeriod ==
    [readings |-> { Reading(Date(2024, 5, 10), Time(8, 0), 500, 900),
                    Reading(Date(2024, 5, 10), Time(17, 30), 500, 900),
                    Reading(Date(2024, 5, 2), Time(17, 30), 500, 900),
                    Reading(Date(2024, 6, 1), Time(8, 0), 500, 900),
                    Reading(Date(2025, 5, 10), Time(8, 0), 500, 900) },
     periods  |-> { <<2024, 5>>, <<2024, 6>>, <<2025, 6>> },
     logins   |-> { <<"admin", "admin123">> },
     newusers |-> { <<"eva", "pw", "user">> },
     maxRows  |-> MaxMeasPeriod]

\* ------------------------------------------------------------ specifications

Next == \E s \in Sessions : main(s, InputsMain)

Spec == Init /\ [][Next]_vars

\* The page handler sprava_pouzivatelov called in any session state, as a
\* caller other than the menu of main() would.
NextGate ==
    \/ Next
    \/ \E s \in Sessions : \E btn \in BOOLEAN : \E n \in Pressed(btn, InputsMain.newusers) :
          sprava_pouzivatelov(s, btn, n[1], n[2], n[3])

SpecGate == Init /\ [][NextGate]_vars

NextChlor == main("s1", InputsChlor)

SpecChlor == Init /\ [][NextChlor]_vars

NextPeriod == main("s1", InputsPeriod)

SpecPeriod == Init /\ [][NextPeriod]_vars

\* ------------------------------------------------------------ claims

\* C1: every stored measurement has bound_chlorine = max(total_chlorine -
\* free_chlorine, 0) on its stored two-decimal fields; hence bound_chlorine
\* is never negative, and it is total_chlorine - free_chlorine whenever
\* total_chlorine >= free_chlorine.
C1_BoundOfStoredFields ==
    \A i \in 1..Len(measurements) :
        LET m == measurements[i] IN
        /\ m.bound_chlorine = Max(m.total_chlorine - m.free_chlorine, 0)
        /\ m.bound_chlorine >= 0
        /\ m.total_chlorine >= m.free_chlorine
              => m.bound_chlorine = m.total_chlorine - m.free_chlorine

\* The band the classification table gives a free chlorine value (in
\* hundredths): Low up to 0.30, Normal from 0.40 to 0.70, High from 0.80,
\* Unclassified in between.
ClaimedBand(v) ==
    IF v <= 30 THEN "Low"
    ELSE IF v >= 80 THEN "High"
    ELSE IF v >= 40 /\ v <= 70 THEN "Normal"
    ELSE "Unclassified"

\* The display of a band: Low is shown blue, High yellow, Normal and
\* Unclassified without a colour.
ClaimedCss(band) ==
    IF band = "Low" THEN CssBlue ELSE IF band = "High" THEN CssYellow ELSE ""

\* C5: every free chlorine value the history shows is classified by its value
\* alone: Low when v <= 0.3, Normal when 0.4 <= v <= 0.7, High when v >= 0.8,
\* Unclassified otherwise (the gaps between 0.3 and 0.4 and between 0.7 and
\* 0.8), and the cell is styled as that band is displayed.
C5_Bands ==
    (last.op = "historia_merani" /\ last.data.table) =>
        \A view \in HistoryViews(last.args.btn, last.args.rok, last.args.mesiac) :
            \A i \in 1..Len(view.df) :
                LET v == view.df[i].free_chlorine IN
                /\ v >= 0
                /\ farba_branch(v) = ClaimedBand(v)
                /\ view.styled[i] = ClaimedCss(ClaimedBand(v))

\* C5 witness: the history shows a Low 0.30 and an Unclassified 0.35 side by
\* side, the first in blue and the second without a colour.
C5_Witness ==
    /\ last.op = "historia_merani" /\ last.data.table
    /\ \E view \in HistoryViews(last.args.btn, last.args.rok, last.args.mesiac) :
          \E i, j \in 1..Len(view.df) :
             /\ view.df[i].free_chlorine = 30 /\ view.styled[i] = CssBlue
             /\ view.df[j].free_chlorine = 35 /\ view.styled[j] = ""

\* The stored rows whose date has the year rok and the month mesiac.
RowsOfMonth(rok, mesiac) ==
    {i \in 1..Len(measurements) :
        measurements[i].date.year = rok /\ measurements[i].date.month = mesiac}

\* (date, time) of a is not after that of b.
NotAfter(dateA, timeA, dateB, timeB) ==
    ~LexLess(<<dateB.year, dateB.month, dateB.day, timeB[1], timeB[2]>>,
             <<dateA.year, dateA.month, dateA.day, timeA[1], timeA[2]>>, 1)

\* C6: the rows of an export are exactly the stored measurements of the
\* asked year and month, each once, by date and then time ascending; the CSV
\* holds the header and then these rows in this order, the spreadsheet the
\* same header and rows; with no measurement in the period (an empty store
\* included) the outcome is the no-data warning and no file.
C6_Export ==
    (last.op = "export_merani" /\ last.args.btn) =>
        LET want == RowsOfMonth(last.args.rok, last.args.mesiac) IN
        IF want = {}
        THEN last.msg = MsgNoExportData /\ ~last.data.files
        ELSE /\ last.msg = "" /\ last.data.files
             /\ \A view \in ExportViews(last.args.rok, last.args.mesiac) :
                  LET rows == view.rows
                      n == Len(rows)
                  IN  /\ n = Cardinality(want)
                      /\ \E p \in [1..n -> want] :
                            /\ \A i, j \in 1..n : i # j => p[i] # p[j]
                            /\ \A i \in 1..n :
                                  LET m == measurements[p[i]] IN
                                  rows[i] = <<m.date, m.day, m.time, m.free_chlorine,
                                              m.total_chlorine, m.bound_chlorine, m.ph,
                                              m.temperature, m.note, JoinedUsername(m)>>
                      /\ \A i, j \in 1..n :
                            i < j => NotAfter(rows[i][1], rows[i][3], rows[j][1], rows[j][3])
                      /\ Len(view.csv.lines) = n + 1
                      /\ view.csv.lines[1] = ExportColumns
                      /\ \A i \in 1..n : view.csv.lines[i + 1] = rows[i]
                      /\ view.xlsx.header = ExportColumns
                      /\ Len(view.xlsx.cells) = n
                      /\ \A i \in 1..n : view.xlsx.cells[i] = rows[i]

\* C6 witness: an export of two rows of different dates while the store also
\* holds a row of another month.
C6_Witness ==
    /\ last.op = "export_merani" /\ last.args.btn /\ last.data.files
    /\ Len(measurements) = 3
    /\ \E view \in ExportViews(last.args.rok, last.args.mesiac) :
          /\ Len(view.rows) = 2
          /\ view.rows[1][1] # view.rows[2][1]
          /\ Len(view.csv.lines) = 3

\* The place of the row with this id in a frame.
PlaceOf(df, id) == CHOOSE k \in 1..Len(df) : df[k].id = id

\* C9: the history holds every stored row, most recent first; filtered by
\* (rok, mesiac) it shows exactly the rows of that year and month, in the
\* order they have in the full history; with rows stored but none in the
\* period the outcome is an empty table with the no-rows-this-month warning,
\* which differs from the outcome of an empty store (its own message, no
\* table).
C9_HistoryFilter ==
    last.op = "historia_merani" =>
        IF measurements = <<>>
        THEN last.msg = MsgNoHistory /\ ~last.data.table
        ELSE LET want == RowsOfMonth(last.args.rok, last.args.mesiac) IN
             /\ last.data.table
             /\ last.msg # MsgNoHistory
             /\ ~last.args.btn => last.msg = ""
             /\ last.args.btn => last.msg = (IF want = {} THEN MsgNoMonthRows ELSE "")
             /\ \A view \in HistoryViews(last.args.btn, last.args.rok, last.args.mesiac) :
                  LET full == view.full
                      df == view.df
                  IN  /\ Len(full) = Len(measurements)
                      /\ {full[i].id : i \in 1..Len(full)}
                            = {measurements[i].id : i \in 1..Len(measurements)}
                      /\ \A i, j \in 1..Len(full) :
                            i < j => NotAfter(full[j].date, full[j].time,
                                              full[i].date, full[i].time)
                      /\ ~last.args.btn => df = full
                      /\ last.args.btn =>
                            /\ Len(df) = Cardinality(want)
                            /\ {df[i].id : i \in 1..Len(df)} = {measurements[i].id : i \in want}
                            /\ \A i, j \in 1..Len(df) :
                                  i < j => PlaceOf(full, df[i].id) < PlaceOf(full, df[j].id)
                            /\ (want = {}) => df = <<>>

\* C9 witness: rows are stored, none of them in the asked month, and the
\* filtered history is the empty table with its warning.
C9_Witness ==
    /\ last.op = "historia_merani" /\ last.args.btn
    /\ measurements # <<>>
    /\ last.data.table /\ last.msg = MsgNoMonthRows
    /\ \A view \in HistoryViews(last.args.btn, last.args.rok, last.args.mesiac) :
          view.df = <<>> /\ Len(view.full) = Len(measurements)

\* A step of session s that ends a run of main() in the page or form op.
Ran(s, op) ==
    /\ pc[s] = "dispatch" /\ pc'[s] = "idle"
    /\ last'.sess = s /\ last'.op = op

\* C2: the list of users is shown and a user is created only for a session
\* whose role is admin; for any other role sprava_pouzivatelov answers with
\* the no-permission error, shows no list and leaves users as it was.
C2_AdminOnly ==
    [][ \A s \in Sessions :
          Ran(s, "sprava_pouzivatelov") =>
             IF session_state[s].role = "admin"
             THEN last'.msg # MsgNoPermission /\ last'.data.listed
             ELSE /\ last'.msg = MsgNoPermission
                  /\ ~last'.data.listed
                  /\ users' = users /\ users_id_seq' = users_id_seq ]_vars

\* C2 witness: a logged-in session of role user was refused.
C2_Witness ==
    /\ last.op = "sprava_pouzivatelov" /\ last.msg = MsgNoPermission
    /\ session_state[last.sess].logged_in
    /\ session_state[last.sess].role = "user"
    /\ Len(users) = 2

\* A step of the bootstrap of session s: its run is before the dispatch.
BootstrapStep(s) == pc[s] # "dispatch" /\ pc'[s] # pc[s]

\* C3: a step of the bootstrap changes users only when users is empty, and
\* then to one row, of role admin; on a non-empty users a run goes from its
\* start to the dispatch with nothing changed; and a run reaches the dispatch
\* (where alone a login is processed) only with the bootstrap done, on a
\* non-empty users.
C3_Bootstrap ==
    [][ \A s \in Sessions :
          /\ (BootstrapStep(s) /\ users' # users) =>
                /\ users = <<>>
                /\ Len(users') = 1
                /\ users'[1].role = "admin" /\ users'[1].username = "admin"
          /\ (BootstrapStep(s) /\ pc[s] = "idle" /\ users # <<>>) =>
                /\ pc'[s] = "dispatch"
                /\ UNCHANGED <<users, users_id_seq, measurements, session_state, pending, last>>
          /\ pc'[s] = "dispatch" => users' # <<>>
          /\ session_state'[s] # session_state[s] => pc[s] = "dispatch" ]_vars

\* C3 witness: the bootstrap of a run created the default admin, and a later
\* run of the same session went through the bootstrap to the dispatch.
C3_Witness ==
    /\ Len(users) = 1 /\ users[1].username = "admin" /\ users[1].role = "admin"
    /\ \E s \in Sessions : pc[s] = "dispatch" /\ last.sess = s /\ last.op = "login_screen"

\* C4: measurements changes only by one row appended by a successful
\* zapis_merania of a logged-in session; the row has a new id and the
\* user_id of that session; the rows stored before stay as they are.  A
\* logged-in session's user_id, username and role are those of a users row.
C4_Measurements ==
    /\ [](\A s \in Sessions :
            session_state[s].logged_in =>
               \E i \in 1..Len(users) :
                  /\ users[i].id = session_state[s].user_id
                  /\ users[i].username = session_state[s].username
                  /\ users[i].role = session_state[s].role)
    /\ [][ measurements' # measurements =>
             \E s \in Sessions :
                /\ Ran(s, "zapis_merania") /\ last'.msg = MsgSaved /\ last'.args.btn
                /\ session_state[s].logged_in
                /\ Len(measurements') = Len(measurements) + 1
                /\ SubSeq(measurements', 1, Len(measurements)) = measurements
                /\ measurements'[Len(measurements')].user_id = session_state[s].user_id
                /\ \A i \in 1..Len(measurements) :
                      measurements[i].id # measurements'[Len(measurements')].id ]_vars

\* C4 witness: two measurements stored by two different users.
C4_Witness ==
    /\ Len(measurements) = 2
    /\ measurements[1].user_id # measurements[2].user_id
    /\ measurements[1].id # measurements[2].id

\* C7: no two rows of users share a username; a creation with an empty
\* username or password is refused with the empty-fields error, one with a
\* username users already holds with the store's unique-violation error, and
\* both leave users unchanged and end the run in the page, not in a traceback.
C7_CreateUser ==
    /\ [](\A i, j \in 1..Len(users) : i # j => users[i].username # users[j].username)
    /\ [][ \A s \in Sessions :
             (Ran(s, "sprava_pouzivatelov") /\ last'.args.btn /\ ~role_denied(s)) =>
                LET u == last'.args.new_username
                    p == last'.args.new_password
                IN  /\ (u = "" \/ p = "") =>
                          last'.msg = MsgEmptyFields /\ users' = users
                    /\ (u # "" /\ p # "" /\ \E i \in 1..Len(users) : users[i].username = u) =>
                          last'.msg = MsgAddUserError /\ users' = users
                    /\ (u # "" /\ p # "" /\ ~\E i \in 1..Len(users) : users[i].username = u) =>
                          /\ last'.msg = MsgUserAdded
                          /\ Len(users') = Len(users) + 1
                          /\ users'[Len(users')].username = u
                    /\ last'.msg # MsgUnhandled ]_vars

\* C7 witness: a creation with a username that exists was refused.
C7_Witness ==
    /\ last.op = "sprava_pouzivatelov" /\ last.args.btn
    /\ last.msg = MsgAddUserError
    /\ last.args.new_username = "eva"
    /\ Len(users) = 2

\* The login form was submitted and the session was not logged in by it.
FailedLogin == last.op = "login_screen" /\ last.args.btn /\ last.msg # "rerun"

\* C8 as claimed: every failed login shows the one generic message and leaves
\* the session logged out.
C8_OneGenericFailure ==
    FailedLogin =>
        /\ last.msg = MsgBadLogin
        /\ ~session_state[last.sess].logged_in

\* C8 as amended: a login succeeds only with the password of an existing
\* user; a failed login leaves the session logged out; with an unknown
\* username and with a wrong password it shows the same generic message;
\* with a stored hash bcrypt cannot read it shows the verification error.
C8_FailedLogin ==
    (last.op = "login_screen" /\ last.args.btn) =>
        LET hit == {i \in 1..Len(users) : users[i].username = last.args.username}
            h == users[CHOOSE i \in hit : TRUE].password_hash
        IN  IF hit = {} THEN
                last.msg = MsgBadLogin /\ ~session_state[last.sess].logged_in
            ELSE IF h.alg # "bcrypt" THEN
                last.msg = MsgVerifyError /\ ~session_state[last.sess].logged_in
            ELSE IF h.pw # last.args.password THEN
                last.msg = MsgBadLogin /\ ~session_state[last.sess].logged_in
            ELSE last.msg = "rerun" /\ session_state[last.sess].logged_in

\* C8 witness: a wrong password for an existing user was refused with the
\* generic message.
C8_Witness ==
    /\ FailedLogin
    /\ \E i \in 1..Len(users) : users[i].username = "admin"
    /\ last.args.username = "admin" /\ last.args.password = "pw"
    /\ last.msg = MsgBadLogin
    /\ ~session_state[last.sess].logged_in

\* The users table was empty when the program started.
StartedEmpty == \A i \in 1..Len(users) : users[i].username # "legacy"

\* C10: on a users table that started empty, once every session is through
\* its bootstrap users holds exactly one default admin row, and no bootstrap
\* ended in an unhandled store error.
C10_ConcurrentBootstrap ==
    /\ (StartedEmpty /\ \A s \in Sessions : pc[s] = "dispatch") =>
          Cardinality({i \in 1..Len(users) :
                          users[i].username = "admin" /\ users[i].role = "admin"}) = 1
    /\ ~(last.op = "ensure_default_admin" /\ last.msg = MsgUnhandled)

====
